---- MODULE Spec2Model ----
(***************************************************************************)
(* Model of src/src/main.cpp: DHT11 temperature / humidity monitor that    *)
(* renders its readings on an SSD1306 display.                             *)
(*                                                                         *)
(* The program is setup() followed by loop() called forever.  Every        *)
(* statement of the two functions is one action; pc holds the line number  *)
(* of the statement that executes next.  The drivers (Serial, DHT,         *)
(* Adafruit_SSD1306) are modelled by what their calls do to the state the  *)
(* program can observe: the serial output, the frame buffer with its text  *)
(* cursor, and the panel that shows the last flushed frame.                *)
(*                                                                         *)
(* Readings are fixed-point numbers in thousandths (23500 is 23.5).        *)
(* A frame is a sequence of text rows.                                     *)
(***************************************************************************)
EXTENDS Integers, Sequences, TLC

VARIABLES
    pc,          \* line of main.cpp whose statement executes next
    temp,        \* local `float temp` of loop()
    hum,         \* local `float hum` of loop()
    buffer,      \* frame buffer of `display`: sequence of text rows
    cursor_x,    \* text cursor of `display`, pixels
    cursor_y,
    textsize,    \* text magnification of `display`
    textcolor,   \* text colour of `display`
    screen,      \* what the panel shows: the frame flushed last
    serial,      \* lines written to the diagnostic channel
    inits,       \* number of begin() calls made on each driver
    calls,       \* history: driver calls made since setup() or this loop() began
    prevCycle,   \* history: how the previous loop() call ended ("none" before the first)
    sinceRead,   \* history: ms elapsed since the last sensor read (or since boot)
    sinceFlush   \* history: ms elapsed since the last flush (or since boot)

vars == <<pc, temp, hum, buffer, cursor_x, cursor_y, textsize, textcolor,
          screen, serial, inits, calls, prevCycle, sinceRead, sinceFlush>>

display_vars == <<buffer, cursor_x, cursor_y, textsize, textcolor, screen>>
local_vars == <<temp, hum>>
time_vars == <<sinceRead, sinceFlush>>

-----------------------------------------------------------------------------
(* Program constants *)

SETUP_DELAY_MS == 2000
LOOP_DELAY_MS == 2000
CHAR_WIDTH == 6
CHAR_HEIGHT == 8

(* Bound: the elapsed-time observers saturate here *)
MaxElapsed == 4000

-----------------------------------------------------------------------------
(* Values of a float as the program sees them *)

Unset == [kind |-> "unset", milli |-> 0]
NaN == [kind |-> "nan", milli |-> 0]
Num(m) == [kind |-> "num", milli |-> m]

isnan(x) == x.kind = "nan"

(* The readings the sensor driver is made to return: the invalid marker,  *)
(* and numbers chosen so that a sign, a zero and a rounding occur.         *)
SampleMillis == {-500, 0, 23456, 23500, 41000}
Readings == {NaN} \cup {Num(m) : m \in SampleMillis}

-----------------------------------------------------------------------------
(* Driver primitives *)

Min(a, b) == IF a < b THEN a ELSE b

Elapse(t, ms) == Min(t + ms, MaxElapsed)

RECURSIVE Spaces(_)
Spaces(n) == IF n <= 0 THEN "" ELSE " " \o Spaces(n - 1)

RECURSIVE BlankRows(_)
BlankRows(n) == IF n <= 0 THEN << >> ELSE <<"">> \o BlankRows(n - 1)

(* Text s drawn into frame buf with its first character at pixel (x, y). *)
DrawText(buf, x, y, size, s) ==
    LET row == (y \div (CHAR_HEIGHT * size)) + 1
        col == x \div (CHAR_WIDTH * size)
        tall == buf \o BlankRows(row - Len(buf))
    IN  [tall EXCEPT ![row] = @ \o Spaces(col - Len(@)) \o s]

(* print(double) with the default of two fractional digits: sign, round   *)
(* half up at the second digit, integer part, ".", two digits.             *)
PrintFloat(x) ==
    IF isnan(x) THEN "nan"
    ELSE LET neg == x.milli < 0
             mag == IF neg THEN -x.milli ELSE x.milli
             rounded == mag + 5
             int_part == rounded \div 1000
             remainder == rounded % 1000
         IN  (IF neg THEN "-" ELSE "") \o ToString(int_part) \o "."
                \o ToString(remainder \div 100)
                \o ToString((remainder \div 10) % 10)

(* display.print(s) and display.println(s) *)
print(s) ==
    /\ buffer' = DrawText(buffer, cursor_x, cursor_y, textsize, s)
    /\ cursor_x' = cursor_x + CHAR_WIDTH * textsize * Len(s)
    /\ UNCHANGED <<cursor_y, textsize, textcolor, screen>>

println(s) ==
    /\ buffer' = DrawText(buffer, cursor_x, cursor_y, textsize, s)
    /\ cursor_x' = 0
    /\ cursor_y' = cursor_y + CHAR_HEIGHT * textsize
    /\ UNCHANGED <<textsize, textcolor, screen>>

-----------------------------------------------------------------------------
Init ==
    /\ pc = "L82"
    /\ temp = Unset
    /\ hum = Unset
    /\ buffer = << >>
    /\ cursor_x = 0
    /\ cursor_y = 0
    /\ textsize = 1
    /\ textcolor = "default"
    /\ screen = << >>
    /\ serial = << >>
    /\ inits = [Serial |-> 0, dht |-> 0, display |-> 0]
    /\ calls = << >>
    /\ prevCycle = "none"
    /\ sinceRead = 0
    /\ sinceFlush = 0

-----------------------------------------------------------------------------
(* setup() *)

setup_Serial_begin ==
    /\ pc = "L82"
    /\ pc' = "L83"
    /\ inits' = [inits EXCEPT !.Serial = @ + 1]
    /\ calls' = Append(calls, "Serial.begin")
    /\ UNCHANGED <<local_vars, display_vars, serial, prevCycle, time_vars>>

setup_dht_begin ==
    /\ pc = "L83"
    /\ pc' = "L85"
    /\ inits' = [inits EXCEPT !.dht = @ + 1]
    /\ calls' = Append(calls, "dht.begin")
    /\ UNCHANGED <<local_vars, display_vars, serial, prevCycle, time_vars>>

setup_display_begin ==
    /\ pc = "L85"
    /\ \E ok \in BOOLEAN : pc' = IF ok THEN "L90" ELSE "L86"
    /\ inits' = [inits EXCEPT !.display = @ + 1]
    /\ calls' = Append(calls, "display.begin")
    /\ UNCHANGED <<local_vars, display_vars, serial, prevCycle, time_vars>>

setup_Serial_println ==
    /\ pc = "L86"
    /\ pc' = "L87"
    /\ serial' = Append(serial, "OLED not found")
    /\ calls' = Append(calls, "Serial.println")
    /\ UNCHANGED <<local_vars, display_vars, inits, prevCycle, time_vars>>

(* Variant: the `while (1);` is missing and setup() carries on *)
setup_halt_falls_through ==
    /\ pc = "L87"
    /\ pc' = "L90"
    /\ UNCHANGED <<local_vars, display_vars, serial, inits, calls, prevCycle, time_vars>>

setup_halt ==
    /\ pc = "L87"
    /\ pc' = "L87"
    /\ UNCHANGED <<local_vars, display_vars, serial, inits, calls, prevCycle, time_vars>>

setup_clearDisplay ==
    /\ pc = "L90"
    /\ pc' = "L91"
    /\ buffer' = << >>
    /\ calls' = Append(calls, "clearDisplay")
    /\ UNCHANGED <<local_vars, cursor_x, cursor_y, textsize, textcolor, screen,
                   serial, inits, prevCycle, time_vars>>

setup_setTextSize ==
    /\ pc = "L91"
    /\ pc' = "L92"
    /\ textsize' = 1
    /\ calls' = Append(calls, "setTextSize")
    /\ UNCHANGED <<local_vars, buffer, cursor_x, cursor_y, textcolor, screen,
                   serial, inits, prevCycle, time_vars>>

setup_setTextColor ==
    /\ pc = "L92"
    /\ pc' = "L93"
    /\ textcolor' = "WHITE"
    /\ calls' = Append(calls, "setTextColor")
    /\ UNCHANGED <<local_vars, buffer, cursor_x, cursor_y, textsize, screen,
                   serial, inits, prevCycle, time_vars>>

setup_setCursor ==
    /\ pc = "L93"
    /\ pc' = "L94"
    /\ cursor_x' = 0
    /\ cursor_y' = 0
    /\ calls' = Append(calls, "setCursor")
    /\ UNCHANGED <<local_vars, buffer, textsize, textcolor, screen,
                   serial, inits, prevCycle, time_vars>>

setup_println ==
    /\ pc = "L94"
    /\ pc' = "L95"
    /\ println("DHT11 Sensor")
    /\ calls' = Append(calls, "println")
    /\ UNCHANGED <<local_vars, serial, inits, prevCycle, time_vars>>

(* Variant: the splash is drawn but never flushed *)
setup_display_missing ==
    /\ pc = "L95"
    /\ pc' = "L96"
    /\ UNCHANGED <<local_vars, display_vars, serial, inits, calls, prevCycle, time_vars>>

setup_display ==
    /\ pc = "L95"
    /\ pc' = "L96"
    /\ screen' = buffer
    /\ sinceFlush' = 0
    /\ calls' = Append(calls, "display")
    /\ UNCHANGED <<local_vars, buffer, cursor_x, cursor_y, textsize, textcolor,
                   serial, inits, prevCycle, sinceRead>>

(* delay(2000), then setup() returns and loop() is entered *)
setup_delay ==
    /\ pc = "L96"
    /\ pc' = "L114"
    /\ sinceRead' = Elapse(sinceRead, SETUP_DELAY_MS)
    /\ sinceFlush' = Elapse(sinceFlush, SETUP_DELAY_MS)
    /\ calls' = << >>
    /\ UNCHANGED <<local_vars, display_vars, serial, inits, prevCycle>>

-----------------------------------------------------------------------------
(* loop() *)

loop_delay ==
    /\ pc = "L114"
    /\ pc' = "L116"
    /\ sinceRead' = Elapse(sinceRead, LOOP_DELAY_MS)
    /\ sinceFlush' = Elapse(sinceFlush, LOOP_DELAY_MS)
    /\ calls' = Append(calls, "delay")
    /\ UNCHANGED <<local_vars, display_vars, serial, inits, prevCycle>>

(* Variant: an invalid temperature skips the humidity read *)
loop_readTemperature_short_circuit ==
    /\ pc = "L116"
    /\ \E r \in Readings :
          /\ temp' = r
          /\ pc' = IF isnan(r) THEN "L119" ELSE "L117"
    /\ sinceRead' = 0
    /\ calls' = Append(calls, "readTemperature")
    /\ UNCHANGED <<hum, display_vars, serial, inits, prevCycle, sinceFlush>>

loop_readTemperature ==
    /\ pc = "L116"
    /\ pc' = "L117"
    /\ \E r \in Readings : temp' = r
    /\ sinceRead' = 0
    /\ calls' = Append(calls, "readTemperature")
    /\ UNCHANGED <<hum, display_vars, serial, inits, prevCycle, sinceFlush>>

loop_readHumidity ==
    /\ pc = "L117"
    /\ pc' = "L119"
    /\ \E r \in Readings : hum' = r
    /\ sinceRead' = 0
    /\ calls' = Append(calls, "readHumidity")
    /\ UNCHANGED <<temp, display_vars, serial, inits, prevCycle, sinceFlush>>

(* Variant: the frame buffer is not cleared at the start of the drawing *)
loop_clearDisplay_keeps_buffer ==
    /\ pc = "L119"
    /\ pc' = "L120"
    /\ calls' = Append(calls, "clearDisplay")
    /\ UNCHANGED <<local_vars, display_vars, serial, inits, prevCycle, time_vars>>

loop_clearDisplay ==
    /\ pc = "L119"
    /\ pc' = "L120"
    /\ buffer' = << >>
    /\ calls' = Append(calls, "clearDisplay")
    /\ UNCHANGED <<local_vars, cursor_x, cursor_y, textsize, textcolor, screen,
                   serial, inits, prevCycle, time_vars>>

loop_setTextSize ==
    /\ pc = "L120"
    /\ pc' = "L121"
    /\ textsize' = 1
    /\ calls' = Append(calls, "setTextSize")
    /\ UNCHANGED <<local_vars, buffer, cursor_x, cursor_y, textcolor, screen,
                   serial, inits, prevCycle, time_vars>>

loop_setCursor ==
    /\ pc = "L121"
    /\ pc' = "L123"
    /\ cursor_x' = 0
    /\ cursor_y' = 0
    /\ calls' = Append(calls, "setCursor")
    /\ UNCHANGED <<local_vars, buffer, textsize, textcolor, screen,
                   serial, inits, prevCycle, time_vars>>

(* Variant: only the temperature is validated *)
loop_isnan_temp_only ==
    /\ pc = "L123"
    /\ pc' = IF isnan(temp) THEN "L124" ELSE "L129"
    /\ UNCHANGED <<local_vars, display_vars, serial, inits, calls, prevCycle, time_vars>>

(* Variant: `while` for `if`: an invalid reading is waited on *)
loop_isnan_spins ==
    /\ pc = "L123"
    /\ pc' = IF isnan(temp) \/ isnan(hum) THEN "L123" ELSE "L129"
    /\ UNCHANGED <<local_vars, display_vars, serial, inits, calls, prevCycle, time_vars>>

(* if (isnan(temp) || isnan(hum)) *)

loop_isnan ==
    /\ pc = "L123"
    /\ pc' = IF isnan(temp) \/ isnan(hum) THEN "L124" ELSE "L129"
    /\ UNCHANGED <<local_vars, display_vars, serial, inits, calls, prevCycle, time_vars>>

(* Variant: the sensor error is also reported on the diagnostic channel *)
loop_error_println_to_Serial ==
    /\ pc = "L124"
    /\ pc' = "L125"
    /\ println("Sensor Error!")
    /\ serial' = Append(serial, "Sensor Error!")
    /\ calls' = Append(calls, "println")
    /\ UNCHANGED <<local_vars, inits, prevCycle, time_vars>>

loop_error_println ==
    /\ pc = "L124"
    /\ pc' = "L125"
    /\ println("Sensor Error!")
    /\ calls' = Append(calls, "println")
    /\ UNCHANGED <<local_vars, serial, inits, prevCycle, time_vars>>

loop_error_display ==
    /\ pc = "L125"
    /\ pc' = "L126"
    /\ screen' = buffer
    /\ sinceFlush' = 0
    /\ calls' = Append(calls, "display")
    /\ UNCHANGED <<local_vars, buffer, cursor_x, cursor_y, textsize, textcolor,
                   serial, inits, prevCycle, sinceRead>>

(* Variant: the error path re-enters the cycle past its delay *)
loop_error_return_skips_delay ==
    /\ pc = "L126"
    /\ pc' = "L116"
    /\ temp' = Unset
    /\ hum' = Unset
    /\ calls' = << >>
    /\ prevCycle' = "error"
    /\ UNCHANGED <<display_vars, serial, inits, time_vars>>

(* Variant: a sensor error is treated as fatal *)
loop_error_return_halts ==
    /\ pc = "L126"
    /\ pc' = "L87"
    /\ temp' = Unset
    /\ hum' = Unset
    /\ calls' = << >>
    /\ prevCycle' = "error"
    /\ UNCHANGED <<display_vars, serial, inits, time_vars>>

(* return; loop() is called again *)

loop_error_return ==
    /\ pc = "L126"
    /\ pc' = "L114"
    /\ temp' = Unset
    /\ hum' = Unset
    /\ calls' = << >>
    /\ prevCycle' = "error"
    /\ UNCHANGED <<display_vars, serial, inits, time_vars>>

loop_println_header ==
    /\ pc = "L129"
    /\ pc' = "L130"
    /\ println("DHT11 Reading")
    /\ calls' = Append(calls, "println")
    /\ UNCHANGED <<local_vars, serial, inits, prevCycle, time_vars>>

loop_println_separator ==
    /\ pc = "L130"
    /\ pc' = "L132"
    /\ println("----------------")
    /\ calls' = Append(calls, "println")
    /\ UNCHANGED <<local_vars, serial, inits, prevCycle, time_vars>>

loop_print_TempLabel ==
    /\ pc = "L132"
    /\ pc' = "L133"
    /\ print("Temp: ")
    /\ calls' = Append(calls, "print")
    /\ UNCHANGED <<local_vars, serial, inits, prevCycle, time_vars>>

loop_print_temp ==
    /\ pc = "L133"
    /\ pc' = "L134"
    /\ print(PrintFloat(temp))
    /\ calls' = Append(calls, "print")
    /\ UNCHANGED <<local_vars, serial, inits, prevCycle, time_vars>>

loop_println_C ==
    /\ pc = "L134"
    /\ pc' = "L136"
    /\ println(" C")
    /\ calls' = Append(calls, "println")
    /\ UNCHANGED <<local_vars, serial, inits, prevCycle, time_vars>>

loop_print_HumidityLabel ==
    /\ pc = "L136"
    /\ pc' = "L137"
    /\ print("Humidity: ")
    /\ calls' = Append(calls, "print")
    /\ UNCHANGED <<local_vars, serial, inits, prevCycle, time_vars>>

(* Variant: the humidity line prints the temperature *)
loop_print_hum_prints_temp ==
    /\ pc = "L137"
    /\ pc' = "L138"
    /\ print(PrintFloat(temp))
    /\ calls' = Append(calls, "print")
    /\ UNCHANGED <<local_vars, serial, inits, prevCycle, time_vars>>

loop_print_hum ==
    /\ pc = "L137"
    /\ pc' = "L138"
    /\ print(PrintFloat(hum))
    /\ calls' = Append(calls, "print")
    /\ UNCHANGED <<local_vars, serial, inits, prevCycle, time_vars>>

loop_println_percent ==
    /\ pc = "L138"
    /\ pc' = "L140"
    /\ println(" %")
    /\ calls' = Append(calls, "println")
    /\ UNCHANGED <<local_vars, serial, inits, prevCycle, time_vars>>

loop_display ==
    /\ pc = "L140"
    /\ pc' = "L141"
    /\ screen' = buffer
    /\ sinceFlush' = 0
    /\ calls' = Append(calls, "display")
    /\ UNCHANGED <<local_vars, buffer, cursor_x, cursor_y, textsize, textcolor,
                   serial, inits, prevCycle, sinceRead>>

(* end of loop(); loop() is called again *)
loop_end ==
    /\ pc = "L141"
    /\ pc' = "L114"
    /\ temp' = Unset
    /\ hum' = Unset
    /\ calls' = << >>
    /\ prevCycle' = "ok"
    /\ UNCHANGED <<display_vars, serial, inits, time_vars>>

-----------------------------------------------------------------------------
Next ==
    \/ setup_Serial_begin
    \/ setup_dht_begin
    \/ setup_display_begin
    \/ setup_Serial_println
    \/ setup_halt
    \/ setup_clearDisplay
    \/ setup_setTextSize
    \/ setup_setTextColor
    \/ setup_setCursor
    \/ setup_println
    \/ setup_display
    \/ setup_delay
    \/ loop_delay
    \/ loop_readTemperature
    \/ loop_readHumidity
    \/ loop_clearDisplay
    \/ loop_setTextSize
    \/ loop_setCursor
    \/ loop_isnan
    \/ loop_error_println
    \/ loop_error_display
    \/ loop_error_return
    \/ loop_println_header
    \/ loop_println_separator
    \/ loop_print_TempLabel
    \/ loop_print_temp
    \/ loop_println_C
    \/ loop_print_HumidityLabel
    \/ loop_print_hum
    \/ loop_println_percent
    \/ loop_display
    \/ loop_end

Spec == Init /\ [][Next]_vars

(* Every statement returns: the program keeps taking steps while it can. *)
FairSpec == Spec /\ WF_vars(Next)

-----------------------------------------------------------------------------
(* Vocabulary of the properties *)

SetupPcs == {"L82", "L83", "L85", "L86", "L90", "L91", "L92", "L93", "L94", "L95", "L96"}
LoopPcs == {"L114", "L116", "L117", "L119", "L120", "L121", "L123", "L124", "L125",
            "L126", "L129", "L130", "L132", "L133", "L134", "L136", "L137", "L138",
            "L140", "L141"}

Booting == pc \in SetupPcs
Halted == pc = "L87"
Sampling == pc \in LoopPcs

(* loop() has made its flush and is about to return *)
CycleDone == pc \in {"L126", "L141"}

IsPrefix(s, t) == Len(s) <= Len(t) /\ SubSeq(t, 1, Len(s)) = s

RECURSIVE Count(_, _)
Count(e, s) == IF s = << >> THEN 0
               ELSE (IF Head(s) = e THEN 1 ELSE 0) + Count(e, Tail(s))

(* The decimal text expected for each sample value, written out by hand *)
TwoDecimals ==
    (-500 :> "-0.50") @@ (0 :> "0.00") @@ (23456 :> "23.46")
        @@ (23500 :> "23.50") @@ (41000 :> "41.00")

SplashFrame == <<"DHT11 Sensor">>
ErrorFrame == <<"Sensor Error!">>
ReadingFrame(t, h) ==
    <<"DHT11 Reading",
      "----------------",
      "Temp: " \o TwoDecimals[t.milli] \o " C",
      "Humidity: " \o TwoDecimals[h.milli] \o " %">>

FrameOf(t, h) == IF isnan(t) \/ isnan(h) THEN ErrorFrame ELSE ReadingFrame(t, h)

ErrorCalls ==
    <<"delay", "readTemperature", "readHumidity", "clearDisplay", "setTextSize",
      "setCursor", "println", "display">>
NormalCalls ==
    <<"delay", "readTemperature", "readHumidity", "clearDisplay", "setTextSize",
      "setCursor", "println", "println", "print", "print", "println", "print",
      "print", "println", "display">>

-----------------------------------------------------------------------------
(* C1: a cycle in which either reading is the invalid marker ends on the    *)
(* error path, and the frame it has flushed is the single row              *)
(* "Sensor Error!", whatever the other reading and the earlier frames were. *)
C1_ErrorFrameOnly ==
    /\ (CycleDone /\ (isnan(temp) \/ isnan(hum))) => pc = "L126"
    /\ pc = "L126" => screen = ErrorFrame /\ (isnan(temp) \/ isnan(hum))

C1_Witness ==
    /\ pc = "L126"
    /\ isnan(temp)
    /\ hum = Num(41000)
    /\ prevCycle = "ok"
    /\ screen = ErrorFrame

(* C2: a cycle in which both readings are numbers ends on the normal path, *)
(* and the frame it has flushed is the four rows header, separator,        *)
(* "Temp: <t> C", "Humidity: <h> %" with this cycle's readings written     *)
(* with two fractional digits.                                             *)
C2_ReadingFrame ==
    /\ (CycleDone /\ ~isnan(temp) /\ ~isnan(hum)) => pc = "L141"
    /\ pc = "L141" =>
          /\ ~isnan(temp) /\ ~isnan(hum)
          /\ screen = ReadingFrame(temp, hum)
          /\ Len(screen) = 4
          /\ \A i \in 1..Len(screen) : screen[i] # "Sensor Error!"

C2_Witness ==
    /\ pc = "L141"
    /\ temp = Num(23500)
    /\ hum = Num(41000)
    /\ screen = <<"DHT11 Reading", "----------------", "Temp: 23.50 C", "Humidity: 41.00 %">>

(* C3: once display.begin() has failed the program reaches the halt and    *)
(* stays there; it has read no sensor value, drawn or flushed nothing and  *)
(* shows no splash, and nothing changes any more.                          *)
C3_HaltIsFinal ==
    /\ [](pc \in {"L86", "L87"} =>
            /\ temp = Unset /\ hum = Unset
            /\ buffer = << >> /\ screen = << >>
            /\ IsPrefix(calls, <<"Serial.begin", "dht.begin", "display.begin", "Serial.println">>)
            /\ prevCycle = "none")
    /\ [][(Halted \/ pc = "L86") => (pc' = "L87" /\ UNCHANGED <<local_vars, display_vars>>)]_vars
    /\ [][Halted => (UNCHANGED vars)]_vars

C3_Witness ==
    /\ Halted
    /\ inits.display = 1
    /\ screen = << >>

(* C4: whenever the temperature read of a cycle is about to be made, at    *)
(* least 2000 ms have elapsed since the last sensor read of the cycle      *)
(* before (or since boot), after a normal and after an error cycle alike.  *)
C4_ReadSpacing ==
    pc = "L116" => sinceRead >= LOOP_DELAY_MS

C4_Witness ==
    /\ pc = "L116"
    /\ prevCycle = "error"
    /\ sinceRead = LOOP_DELAY_MS

(* C5: the diagnostic channel holds the one line "OLED not found" exactly  *)
(* when the program has halted on a failed display initialization, holds   *)
(* nothing in every other state, and after the halt neither it nor the     *)
(* display changes.                                                        *)
C5_DiagnosticOutput ==
    /\ [](serial = IF Halted THEN <<"OLED not found">> ELSE << >>)
    /\ [][Halted => (UNCHANGED <<serial, screen, buffer>>)]_vars

C5_Witness ==
    /\ Halted
    /\ serial = <<"OLED not found">>

(* C6: after an error cycle the program is still sampling; the next cycle  *)
(* makes both reads again, and when both are numbers it ends on the normal *)
(* path with the readings frame and no error text on the display.          *)
C6_ErrorLastsOneCycle ==
    prevCycle = "error" =>
        /\ Sampling
        /\ pc \notin {"L114", "L116", "L117"} =>
              /\ IsPrefix(<<"delay", "readTemperature", "readHumidity">>, calls)
              /\ temp \in Readings /\ hum \in Readings
        /\ CycleDone => screen = FrameOf(temp, hum)
        /\ (CycleDone /\ ~isnan(temp) /\ ~isnan(hum)) =>
              /\ pc = "L141"
              /\ \A i \in 1..Len(screen) : screen[i] # "Sensor Error!"

C6_Witness ==
    /\ prevCycle = "error"
    /\ pc = "L141"
    /\ screen = ReadingFrame(temp, hum)

(* C7: the program is booting, halted or sampling; the halt and sampling   *)
(* are never left, sampling is entered with each driver initialized once   *)
(* and none is initialized again, and while sampling a flush always        *)
(* follows, whatever the sensor returns.                                   *)
C7_TwoStates ==
    /\ [](Booting \/ Halted \/ Sampling)
    /\ [][Halted => Halted']_vars
    /\ [][Sampling => Sampling']_vars
    /\ [](Sampling => inits = [Serial |-> 1, dht |-> 1, display |-> 1] /\ serial = << >>)
    /\ [](Sampling => <>CycleDone)

C7_Witness ==
    /\ Sampling
    /\ CycleDone
    /\ prevCycle = "error"

(* C8: between the flush in setup() and the first flush of the first cycle *)
(* the display shows the splash row "DHT11 Sensor" alone; the first cycle  *)
(* begins at least 2000 ms after that flush, and no sensor value has been  *)
(* read before it.                                                         *)
C8_Splash ==
    /\ (pc = "L96" \/ (prevCycle = "none" /\ Sampling /\ ~CycleDone)) => screen = SplashFrame
    /\ (prevCycle = "none" /\ pc = "L114") => sinceFlush >= SETUP_DELAY_MS
    /\ (Booting \/ Halted) => temp = Unset /\ hum = Unset

C8_Witness ==
    /\ prevCycle = "none"
    /\ pc = "L140"
    /\ screen = SplashFrame
    /\ temp \in Readings

(* C9: the driver calls of a cycle are always delay, readTemperature,      *)
(* readHumidity, clearDisplay, setTextSize, setCursor, the draws, display: *)
(* each read is made once, the humidity read also after an invalid         *)
(* temperature, and both before the buffer is cleared.                     *)
C9_CallOrder ==
    Sampling =>
        /\ IsPrefix(calls, ErrorCalls) \/ IsPrefix(calls, NormalCalls)
        /\ pc = "L126" => calls = ErrorCalls
        /\ pc = "L141" => calls = NormalCalls
        /\ pc = "L119" => calls = <<"delay", "readTemperature", "readHumidity">> /\ hum \in Readings

C9_Witness ==
    /\ pc = "L126"
    /\ isnan(temp)
    /\ hum \in Readings
    /\ calls = ErrorCalls

(* C10: a cycle flushes once, as its last driver call; the display only    *)
(* ever shows the splash, the error frame or a complete readings frame,    *)
(* and after a cycle it shows the frame of that cycle's two readings       *)
(* whatever the cycles before it showed.                                   *)
C10_OneFlushPerCycle ==
    Sampling =>
        /\ Count("display", calls) = IF CycleDone THEN 1 ELSE 0
        /\ CycleDone => calls[Len(calls)] = "display" /\ screen = FrameOf(temp, hum)
        /\ \/ screen \in {SplashFrame, ErrorFrame}
           \/ \E t, h \in Readings \ {NaN} : screen = ReadingFrame(t, h)

C10_Witness ==
    /\ pc = "L141"
    /\ prevCycle = "error"
    /\ Count("display", calls) = 1
    /\ screen = ReadingFrame(temp, hum)
====
